---- MODULE Spec2Model ----
(***************************************************************************)
(* A model of douban_movie_spider.py: the field normalizer, the detail     *)
(* merger, the record extractors, the deduplicating crawl drivers and the  *)
(* incremental persistence sink (save_movie_line, save_to_json).           *)
(*                                                                         *)
(* Text is a sequence of tokens.  A token is one character, or one of the  *)
(* literals the code matches as a unit: the site origin BASE, "/subject/", *)
(* "movie/", the director and actor markers, and LONG, which stands for a  *)
(* run of 201 characters.  A field name is a TLA+ string; as a cell of the *)
(* tabular store it is the one-token text <<name>>.                        *)
(*                                                                         *)
(* A Python value is [t, s, n]: t is its type, s its text (str), n its     *)
(* number (int; float in tenths).  A dict is the sequence of its entries   *)
(* [k, v] in insertion order.                                              *)
(***************************************************************************)
EXTENDS Integers, Sequences, FiniteSets, TLC

VARIABLES
    options,          \* what the session passes to each of its drivers
    existing_movies,  \* the dedup set shared by the drivers of a session
    accepted,         \* the records of the lists returned so far in the session
    jsonl,            \* line-delimited target: [exists, lines]
    json,             \* aggregate-array target: [kind, elems]
    csv,              \* tabular target: [exists, rows]
    driver,           \* the running driver: its parameters and its position
    movies,           \* the running driver's result list
    runs,             \* the driver invocations of the session so far
    faults,           \* the calls of save_movie_line that raised so far
    start,            \* the three targets as the session found them
    calls,            \* history: the calls made on the sink itself, [movie, targets, fault]
    log               \* history: what the last step did

vars == <<options, existing_movies, accepted, jsonl, json, csv, driver, movies, runs, faults,
          start, calls, log>>

-----------------------------------------------------------------------------
(* Text *)

BASE == "https://movie.douban.com"
SUBJ == "/subject/"
MOVIE == "movie/"
DIRECTOR == "director-marker"
ACTOR == "actor-marker"
LONG == "run-of-201-chars"
SP == " "
COMMA == ","
WCOMMA == "fullwidth-comma"

DigitChars == {"0", "1", "2", "3", "4", "5", "6", "7", "8", "9"}

DigitVal(c) ==
    CASE c = "0" -> 0 [] c = "1" -> 1 [] c = "2" -> 2 [] c = "3" -> 3
      [] c = "4" -> 4 [] c = "5" -> 5 [] c = "6" -> 6 [] c = "7" -> 7
      [] c = "8" -> 8 [] c = "9" -> 9 [] OTHER -> 0

DigitChar(n) == <<"0", "1", "2", "3", "4", "5", "6", "7", "8", "9">>[n + 1]

TokLen(c) ==
    CASE c = BASE -> 24 [] c = SUBJ -> 9 [] c = MOVIE -> 6 [] c = DIRECTOR -> 2
      [] c = ACTOR -> 2 [] c = LONG -> 201 [] OTHER -> 1

RECURSIVE TextLen(_)
TextLen(s) == IF s = <<>> THEN 0 ELSE TokLen(Head(s)) + TextLen(Tail(s))

Sub(s, i, j) == IF i > j THEN <<>> ELSE SubSeq(s, i, j)

AllDigits(s) == \A i \in 1..Len(s) : s[i] \in DigitChars

Contains(s, c) == \E i \in 1..Len(s) : s[i] = c

\* str.strip()
RECURSIVE LStrip(_)
LStrip(s) == IF s # <<>> /\ Head(s) = SP THEN LStrip(Tail(s)) ELSE s

RECURSIVE RStrip(_)
RStrip(s) == IF s # <<>> /\ s[Len(s)] = SP THEN RStrip(Sub(s, 1, Len(s) - 1)) ELSE s

Strip(s) == RStrip(LStrip(s))

\* str.replace(c, '')
Remove(s, c) == SelectSeq(s, LAMBDA x : x # c)

\* str.split(sep): the pieces between the separators, empty ones included
RECURSIVE SplitAcc(_, _, _)
SplitAcc(s, sep, cur) ==
    IF s = <<>> THEN <<cur>>
    ELSE IF Head(s) = sep THEN <<cur>> \o SplitAcc(Tail(s), sep, <<>>)
    ELSE SplitAcc(Tail(s), sep, Append(cur, Head(s)))

Split(s, sep) == SplitAcc(s, sep, <<>>)

\* [x.strip() for x in s.split(',') if x.strip()]
RECURSIVE StripAll(_)
StripAll(parts) ==
    IF parts = <<>> THEN <<>>
    ELSE IF Strip(Head(parts)) = <<>> THEN StripAll(Tail(parts))
    ELSE <<Strip(Head(parts))>> \o StripAll(Tail(parts))

NameList(s) == StripAll(Split(s, COMMA))

\* ', '.join(parts)
RECURSIVE Join(_)
Join(parts) ==
    IF parts = <<>> THEN <<>>
    ELSE IF Len(parts) = 1 THEN parts[1]
    ELSE parts[1] \o <<COMMA, SP>> \o Join(Tail(parts))

\* the length of the run of digits that starts at position i
RECURSIVE DigitRun(_, _)
DigitRun(s, i) == IF i <= Len(s) /\ s[i] \in DigitChars THEN 1 + DigitRun(s, i + 1) ELSE 0

\* re.findall(r'\d+', s)[0], or <<>> when s holds no digit
FirstDigits(s) ==
    IF \E i \in 1..Len(s) : s[i] \in DigitChars
    THEN LET i == CHOOSE j \in 1..Len(s) :
                      s[j] \in DigitChars /\ \A k \in 1..(j - 1) : s[k] \notin DigitChars
         IN  Sub(s, i, i + DigitRun(s, i) - 1)
    ELSE <<>>

RECURSIVE DigitsToInt(_)
DigitsToInt(s) ==
    IF s = <<>> THEN 0 ELSE 10 * DigitsToInt(Sub(s, 1, Len(s) - 1)) + DigitVal(s[Len(s)])

RECURSIVE IntToText(_)
IntToText(n) == IF n < 10 THEN <<DigitChar(n)>> ELSE Append(IntToText(n \div 10), DigitChar(n % 10))

-----------------------------------------------------------------------------
(* Values and dicts *)

PyStr(s) == [t |-> "str", s |-> s, n |-> 0]
PyInt(n) == [t |-> "int", s |-> <<>>, n |-> n]
PyFloat(n) == [t |-> "float", s |-> <<>>, n |-> n]
PyNone == [t |-> "none", s |-> <<>>, n |-> 0]

\* bool(v)
Truthy(v) ==
    CASE v.t = "str" -> v.s # <<>>
      [] v.t = "int" -> v.n # 0
      [] v.t = "float" -> v.n # 0
      [] OTHER -> FALSE

\* str(v)
FltToText(n) == IntToText(n \div 10) \o <<".", DigitChar(n % 10)>>

ToText(v) ==
    CASE v.t = "str" -> v.s
      [] v.t = "int" -> IntToText(v.n)
      [] v.t = "float" -> FltToText(v.n)
      [] OTHER -> <<"N", "o", "n", "e">>

\* float(text): digits, with an optional point and fraction; the value in tenths
FloatParses(s) ==
    LET t == Strip(s)
        d == DigitRun(t, 1)
    IN  \/ d >= 1 /\ d = Len(t)
        \/ d < Len(t) /\ t[d + 1] = "." /\ AllDigits(Sub(t, d + 2, Len(t))) /\ Len(t) > 1

FloatOf(s) ==
    LET t == Strip(s)
        d == DigitRun(t, 1)
    IN  10 * DigitsToInt(Sub(t, 1, d)) + (IF d + 2 <= Len(t) THEN DigitVal(t[d + 2]) ELSE 0)

\* int(text)
IntParses(s) == Strip(s) # <<>> /\ AllDigits(Strip(s))
IntOf(s) == DigitsToInt(Strip(s))

Has(d, k) == \E i \in 1..Len(d) : d[i].k = k
Idx(d, k) == CHOOSE i \in 1..Len(d) : d[i].k = k
Get(d, k, default) == IF Has(d, k) THEN d[Idx(d, k)].v ELSE default
Put(d, k, v) ==
    IF Has(d, k) THEN [d EXCEPT ![Idx(d, k)] = [k |-> k, v |-> v]]
    ELSE Append(d, [k |-> k, v |-> v])
Del(d, k) == SelectSeq(d, LAMBDA e : e.k # k)
Keys(d) == [i \in 1..Len(d) |-> d[i].k]
KeySet(d) == {d[i].k : i \in 1..Len(d)}

\* movie.get(k) is truthy
On(d, k) == Has(d, k) /\ Truthy(Get(d, k, PyNone))

RECURSIVE DelAll(_, _)
DelAll(d, ks) == IF ks = <<>> THEN d ELSE DelAll(Del(d, Head(ks)), Tail(ks))

FIELD_ORDER ==
    <<"movie_id", "title", "rating", "total_ratings", "directors", "actors",
      "screenwriters", "release_date", "genres", "countries", "languages",
      "runtime", "summary", "tags", "imdb", "link", "category", "box_office",
      "poster">>

InFieldOrder(k) == \E i \in 1..Len(FIELD_ORDER) : FIELD_ORDER[i] = k

-----------------------------------------------------------------------------
(* Field Normalizer: normalize_movie_data.  NormalizeInPlace is the dict   *)
(* the caller passed, as the call leaves it; normalize_movie_data is the   *)
(* reordered dict the call returns.  The text fields hold str values, as   *)
(* the extractors build them.                                              *)

V(m, k) == Get(m, k, PyNone)

\* names[:n]
Take(names, n) == SubSeq(names, 1, IF n < Len(names) THEN n ELSE Len(names))

\* a list of names left as it is: C16 fails with it
KeepNames(m, k, n) == m

\* steps 3-5: keep the first n names of a comma-separated list
LimitNames(m, k, n) ==
    IF On(m, k) /\ NameList(V(m, k).s) # <<>>
    THEN Put(m, k, PyStr(Join(Take(NameList(V(m, k).s), n))))
    ELSE m

\* step 9.5: rating as a float
NormRating(m) ==
    IF On(m, "rating")
    THEN LET rating_str == Strip(ToText(V(m, "rating")))
         IN  IF rating_str # <<>> /\ FloatParses(rating_str)
             THEN Put(m, "rating", PyFloat(FloatOf(rating_str)))
             ELSE Put(m, "rating", PyFloat(0))
    ELSE IF ~Has(m, "rating") THEN Put(m, "rating", PyFloat(0))
    ELSE m

\* int(re.findall(r'\d+', text.replace(',', '').replace('，', ''))[0]), or 0
PeopleCount(text) == DigitsToInt(FirstDigits(Remove(Remove(text, COMMA), WCOMMA)))

\* step 10: people -> total_ratings
NormPeople(m) ==
    IF On(m, "people")
    THEN Del(Put(m, "total_ratings", PyInt(PeopleCount(V(m, "people").s))), "people")
    ELSE IF ~Has(m, "total_ratings") THEN Put(m, "total_ratings", PyInt(0))
    ELSE IF V(m, "total_ratings").t = "str"
    THEN Put(m, "total_ratings", PyInt(PeopleCount(V(m, "total_ratings").s)))
    ELSE m

IsD(s, i) == i <= Len(s) /\ s[i] \in DigitChars
Is(s, i, c) == i <= Len(s) /\ s[i] = c

\* the leftmost match of a pattern whose match at position i has length L(s, i)
Search(s, L(_, _)) ==
    IF \E i \in 1..Len(s) : L(s, i) > 0
    THEN LET i == CHOOSE j \in 1..Len(s) : L(s, j) > 0 /\ \A k \in 1..(j - 1) : L(s, k) = 0
         IN  Sub(s, i, i + L(s, i) - 1)
    ELSE <<>>

\* r'/subject/(\d+)/': the length of the digits, matched at the marker
SubjectLen(s, i) ==
    IF Is(s, i, SUBJ) /\ DigitRun(s, i + 1) >= 1
       /\ (Is(s, i + 1 + DigitRun(s, i + 1), "/") \/ Is(s, i + 1 + DigitRun(s, i + 1), SUBJ))
    THEN 1 + DigitRun(s, i + 1)
    ELSE 0

\* match.group(1) of re.search(r'/subject/(\d+)/', link), or <<>>
SubjectId(link) ==
    IF Search(link, SubjectLen) = <<>> THEN <<>> ELSE Tail(Search(link, SubjectLen))

\* step 10.5: movie_id as an integer
NormMovieId(m) ==
    IF ~Has(m, "movie_id") \/ ~Truthy(V(m, "movie_id"))
    THEN IF On(m, "link") /\ SubjectId(V(m, "link").s) # <<>>
         THEN Put(m, "movie_id", PyInt(DigitsToInt(SubjectId(V(m, "link").s))))
         ELSE Put(m, "movie_id", PyInt(0))
    ELSE LET movie_id_value == V(m, "movie_id")
         IN  IF movie_id_value.t = "str" /\ Strip(movie_id_value.s) # <<>>
             THEN IF IntParses(movie_id_value.s)
                  THEN Put(m, "movie_id", PyInt(IntOf(movie_id_value.s)))
                  ELSE Put(m, "movie_id", PyInt(0))
             ELSE IF movie_id_value.t # "int" THEN Put(m, "movie_id", PyInt(0))
             ELSE m

\* step 11: countries and languages that hold mis-parsed text are emptied
CleanText(m, k) ==
    IF On(m, k) /\ (Contains(V(m, k).s, DIRECTOR) \/ Contains(V(m, k).s, ACTOR)
                    \/ TextLen(V(m, k).s) > 200)
    THEN Put(m, k, PyStr(<<>>))
    ELSE m

Four(s, i) == IsD(s, i) /\ IsD(s, i + 1) /\ IsD(s, i + 2) /\ IsD(s, i + 3)

\* r'(\d{4}-\d{1,2}-\d{1,2})'
YMDLen(s, i) ==
    IF Four(s, i) /\ Is(s, i + 4, "-") /\ IsD(s, i + 5)
    THEN LET mm == IF IsD(s, i + 6) /\ Is(s, i + 7, "-") /\ IsD(s, i + 8) THEN 2
                   ELSE IF Is(s, i + 6, "-") /\ IsD(s, i + 7) THEN 1 ELSE 0
         IN  IF mm = 0 THEN 0
             ELSE 6 + mm + (IF IsD(s, i + 7 + mm) THEN 2 ELSE 1)
    ELSE 0

\* r'(\d{4}-\d{1,2})'
YMLen(s, i) ==
    IF Four(s, i) /\ Is(s, i + 4, "-") /\ IsD(s, i + 5)
    THEN 5 + (IF IsD(s, i + 6) THEN 2 ELSE 1)
    ELSE 0

\* r'(\d{4})'
YLen(s, i) == IF Four(s, i) THEN 4 ELSE 0

\* the year of a release entry, whatever else it holds: C17 fails with it
YearOf(first_date) == Search(first_date, YLen)

\* the date kept from one release entry: YYYY-MM-DD, else YYYY-MM, else YYYY
DateOf(first_date) ==
    IF Search(first_date, YMDLen) # <<>> THEN Search(first_date, YMDLen)
    ELSE IF Search(first_date, YMLen) # <<>> THEN Search(first_date, YMLen)
    ELSE Search(first_date, YLen)

\* step 12: release_dates -> release_date
NormRelease(m) ==
    LET a == IF On(m, "release_dates")
             THEN LET dates == NameList(V(m, "release_dates").s)
                  IN  Del(IF dates # <<>> /\ DateOf(dates[1]) # <<>>
                          THEN Put(m, "release_date", PyStr(DateOf(dates[1])))
                          ELSE m, "release_dates")
             ELSE IF ~Has(m, "release_date") \/ ~Truthy(V(m, "release_date"))
             THEN IF On(m, "release_year")
                  THEN Del(Put(m, "release_date", V(m, "release_year")), "release_year")
                  ELSE IF On(m, "info") /\ Search(V(m, "info").s, YLen) # <<>>
                          /\ DigitsToInt(Search(V(m, "info").s, YLen)) >= 1900
                          /\ DigitsToInt(Search(V(m, "info").s, YLen)) <= 2100
                  THEN Put(m, "release_date", PyStr(Search(V(m, "info").s, YLen)))
                  ELSE m
             ELSE m
        b == IF Has(a, "release_date") /\ V(a, "release_date").t = "int"
             THEN Put(a, "release_date", PyStr(IntToText(V(a, "release_date").n)))
             ELSE a
    IN  Del(b, "release_year")

NormalizeInPlace(movie) ==
    LET m2 == DelAll(movie, <<"rank", "other_titles">>)
        m5 == LimitNames(LimitNames(LimitNames(m2, "actors", 5), "directors", 1),
                         "screenwriters", 1)
        m9 == DelAll(m5, <<"also_known_as", "rating_5star", "rating_4star",
                           "rating_3star", "rating_2star", "rating_1star", "quote",
                           "info", "category", "rating_detail">>)
        m10 == NormMovieId(NormPeople(NormRating(m9)))
        m11 == CleanText(CleanText(m10, "countries"), "languages")
    IN  NormRelease(m11)

\* the fields of FIELD_ORDER first, then the others as met
Ordered(m) ==
    LET known == SelectSeq(FIELD_ORDER, LAMBDA f : Has(m, f))
    IN  [i \in 1..Len(known) |-> [k |-> known[i], v |-> V(m, known[i])]]
        \o SelectSeq(m, LAMBDA e : ~InFieldOrder(e.k))

normalize_movie_data(movie) == Ordered(NormalizeInPlace(movie))

-----------------------------------------------------------------------------
(* Detail Merger: _merge_detail_info.  A detail_info is [fields, has_rd,   *)
(* rd]: the dict of the page's text fields, whether it holds the key       *)
(* rating_detail, and that sub-dict (average, total_ratings).              *)

NoDetail == [fields |-> <<>>, has_rd |-> FALSE, rd |-> <<>>]

MergeFields ==
    <<"poster", "directors", "actors", "screenwriters", "genres", "countries",
      "languages", "release_dates", "runtime", "summary", "tags", "imdb">>

\* a merge that copies every field the detail record has: C18 fails with it
RECURSIVE MergeAll(_, _, _)
MergeAll(movie, fields, ks) ==
    IF ks = <<>> THEN movie
    ELSE MergeAll(IF Has(fields, Head(ks)) THEN Put(movie, Head(ks), V(fields, Head(ks)))
                  ELSE movie, fields, Tail(ks))

RECURSIVE MergeEach(_, _, _)
MergeEach(movie, fields, ks) ==
    IF ks = <<>> THEN movie
    ELSE MergeEach(IF On(fields, Head(ks)) THEN Put(movie, Head(ks), V(fields, Head(ks)))
                   ELSE movie, fields, Tail(ks))

MergeRating(movie, rd) ==
    LET a == IF On(rd, "average")
             THEN LET avg_rating == V(rd, "average")
                  IN  IF avg_rating.t = "str"
                      THEN IF FloatParses(avg_rating.s)
                           THEN Put(movie, "rating", PyFloat(FloatOf(avg_rating.s)))
                           ELSE Put(movie, "rating", Get(movie, "rating", PyFloat(0)))
                      ELSE Put(movie, "rating", PyFloat(IF avg_rating.t = "int"
                                                        THEN 10 * avg_rating.n
                                                        ELSE avg_rating.n))
             ELSE movie
    IN  IF On(rd, "total_ratings") THEN Put(a, "total_ratings", V(rd, "total_ratings")) ELSE a

_merge_detail_info(movie, detail_info) ==
    IF detail_info.fields = <<>> /\ ~detail_info.has_rd THEN movie
    ELSE LET merged == MergeEach(movie, detail_info.fields, MergeFields)
         IN  IF detail_info.has_rd /\ detail_info.rd # <<>>
             THEN MergeRating(merged, detail_info.rd)
             ELSE merged

-----------------------------------------------------------------------------
(* Incremental Persistence Sink: save_movie_line.  The targets of a call   *)
(* are the file names it was given, a subset of AllTargets.  A fault is    *)
(* the place where the call raises, "none" when it completes.              *)

AllTargets == {"jsonl", "json", "csv"}

SinkFaults == {"none", "jsonl", "json_read", "json_write", "csv"}

\* a KeyboardInterrupt delivered while the call writes a target: no handler of
\* the program catches it there, and the process ends with the write cut short
Interrupts == {"int_jsonl", "int_json", "int_csv"}

\* the target a fault or an interrupt belongs to
FaultTarget(fault) ==
    CASE fault = "jsonl" -> "jsonl"
      [] fault = "json_read" -> "json"
      [] fault = "json_write" -> "json"
      [] fault = "csv" -> "csv"
      [] fault = "int_jsonl" -> "jsonl"
      [] fault = "int_json" -> "json"
      [] fault = "int_csv" -> "csv"
      [] OTHER -> "none"

\* open(name, 'a') and a write cut short: the target exists, and the lines or
\* rows it held are what it holds whole
CutAppend(f) == [f EXCEPT !.exists = TRUE]

\* open(name, 'w') and a json.dump cut short: the target was truncated and is
\* not a JSON document
CutRewrite(f) == [kind |-> "corrupt", elems |-> <<>>]

\* a line-delimited target opened with 'w': C11 fails with it
WriteJsonl(f, movie) == [exists |-> TRUE, lines |-> <<movie>>]

\* open(jsonl, 'a'); write(json.dumps(movie) + '\n')
AppendJsonl(f, movie) == [exists |-> TRUE, lines |-> Append(f.lines, movie)]

\* an aggregate array rewritten with the record alone: C10 fails with it
AppendJsonFresh(f, movie) == [kind |-> "array", elems |-> <<movie>>]

\* the aggregate array, read whole and rewritten with the record appended
AppendJson(f, movie) ==
    CASE f.kind = "array" -> [kind |-> "array", elems |-> Append(f.elems, movie)]
      [] f.kind = "value" -> [kind |-> "array", elems |-> Append(f.elems, movie)]
      [] OTHER -> [kind |-> "array", elems |-> <<movie>>]

\* str(value) as the csv writer writes it; None is written as an empty cell
CsvCell(v) == IF v.t = "none" THEN <<>> ELSE ToText(v)

\* the field a header cell names
CellField(c) == IF Len(c) = 1 THEN c[1] ELSE ""

\* a header that is never read back: C9 fails with it
NoHeader(f) == <<>>

\* next(csv.reader(f), [])
HeaderOf(f) == IF f.exists /\ f.rows # <<>> THEN f.rows[1] ELSE <<>>

\* the columns of a first write: FIELD_ORDER's fields the record has, then its others
FieldNames(movie) ==
    LET names == Keys(Ordered(movie))
    IN  [i \in 1..Len(names) |-> <<names[i]>>]

\* a tabular append that rewrites the header for the record: C8 fails with it
AppendCsvWidening(f, movie) ==
    LET fieldnames == FieldNames(movie)
        row == [i \in 1..Len(fieldnames) |-> CsvCell(V(movie, CellField(fieldnames[i])))]
    IN  [exists |-> TRUE,
         rows |-> IF f.rows = <<>> THEN <<fieldnames, row>>
                  ELSE <<fieldnames>> \o Tail(f.rows) \o <<row>>]

AppendCsv(f, movie) ==
    LET existing_fieldnames == HeaderOf(f)
        fieldnames == IF existing_fieldnames = <<>> THEN FieldNames(movie)
                      ELSE existing_fieldnames
        row == [i \in 1..Len(fieldnames) |->
                   IF Has(movie, CellField(fieldnames[i]))
                   THEN CsvCell(V(movie, CellField(fieldnames[i])))
                   ELSE <<>>]
    IN  [exists |-> TRUE,
         rows |-> IF f.exists THEN Append(f.rows, row) ELSE <<fieldnames, row>>]

\* a sink that writes the line-delimited target only: C7 fails with it
SaveLinesOnly(disk, movie, targets, fault) ==
    [disk EXCEPT !.jsonl = IF "jsonl" \in targets /\ fault = "none"
                           THEN AppendJsonl(disk.jsonl, normalize_movie_data(movie))
                           ELSE disk.jsonl]

\* the three targets after save_movie_line(movie, targets), raising at fault
save_movie_line(disk, movie, targets, fault) ==
    LET m == normalize_movie_data(movie)
        at == FaultTarget(fault)
    IN  [jsonl |-> IF "jsonl" \in targets /\ at # "jsonl"
                   THEN AppendJsonl(disk.jsonl, m)
                   ELSE IF fault = "int_jsonl" THEN CutAppend(disk.jsonl)
                   ELSE disk.jsonl,
         json |-> IF "json" \in targets /\ at \notin {"jsonl", "json"}
                  THEN AppendJson(disk.json, m)
                  ELSE IF fault \in {"json_write", "int_json"} THEN CutRewrite(disk.json)
                  ELSE disk.json,
         csv |-> IF "csv" \in targets /\ fault = "none"
                 THEN AppendCsv(disk.csv, m)
                 ELSE IF fault = "int_csv" THEN CutAppend(disk.csv)
                 ELSE disk.csv]

-----------------------------------------------------------------------------
(* Record Extractor, list page: parse_movie_item.  An item of a list page  *)
(* is the part of its markup the extractor reads.  An element that may be  *)
(* absent is <<>> when absent and <<text>> when present:                   *)
(*   nbg        href of a.nbg            pic, pic_a  div.pic and its a     *)
(*   hd, hd_a   div.hd and its a         hd_title    span.title of div.hd  *)
(*   img        src of the first img     rating_num  span.rating_num       *)
(*   star       the spans of div.star    info        the p of div.bd       *)
(*   broken     the markup makes the extractor raise                       *)

StartsWithHttp(link) == link # <<>> /\ Head(link) \in {BASE, "http"}

\* urljoin(base_url, link) for a relative link
urljoin(link) ==
    IF Head(link) \in {"/", SUBJ} THEN <<BASE>> \o link ELSE <<BASE, "/">> \o link

\* the link cascade: a.nbg, else div.pic a, else div.hd a
ItemLink(item) ==
    LET link == IF item.nbg # <<>> THEN item.nbg[1]
                ELSE IF item.pic
                THEN IF item.pic_a # <<>> THEN item.pic_a[1] ELSE <<>>
                ELSE IF item.hd /\ item.hd_a # <<>> THEN item.hd_a[1]
                ELSE <<>>
    IN  IF link # <<>> /\ ~StartsWithHttp(link) THEN urljoin(link) ELSE link

ItemTitle(item) ==
    IF item.hd /\ item.hd_title # <<>> THEN Strip(item.hd_title[1]) ELSE <<>>

ItemRating(item) ==
    IF item.rating_num # <<>> /\ Strip(item.rating_num[1]) # <<>>
       /\ FloatParses(item.rating_num[1])
    THEN FloatOf(item.rating_num[1])
    ELSE 0

ItemPeople(item) ==
    IF item.star # <<>> THEN PeopleCount(Strip(item.star[Len(item.star)])) ELSE 0

\* part.replace(marker + ':', '').replace(marker, '').strip()
RECURSIVE DropMarker(_, _)
DropMarker(s, marker) ==
    IF s = <<>> THEN <<>>
    ELSE IF Head(s) = marker
    THEN DropMarker(IF Len(s) > 1 /\ s[2] = ":" THEN Tail(Tail(s)) ELSE Tail(s), marker)
    ELSE <<Head(s)>> \o DropMarker(Tail(s), marker)

\* the director, actor and year parts of the info line; the last of each kind wins
RECURSIVE InfoParts(_, _)
InfoParts(parts, acc) ==
    IF parts = <<>> THEN acc
    ELSE LET part == Strip(Head(parts))
         IN  InfoParts(Tail(parts),
                 IF Contains(part, DIRECTOR)
                 THEN [acc EXCEPT !.directors = Strip(DropMarker(part, DIRECTOR))]
                 ELSE IF Contains(part, ACTOR)
                 THEN [acc EXCEPT !.actors = Strip(DropMarker(part, ACTOR))]
                 ELSE IF Len(part) = 4 /\ AllDigits(part)
                         /\ DigitsToInt(part) >= 1900 /\ DigitsToInt(part) <= 2100
                 THEN [acc EXCEPT !.release_date = part]
                 ELSE acc)

ItemInfo(item) ==
    InfoParts(IF item.info # <<>> THEN Split(item.info[1], "/") ELSE <<>>,
              [directors |-> <<>>, actors |-> <<>>, release_date |-> <<>>])

\* movie_info, as built before _process_movie_with_detail
ItemMovie(item) ==
    <<[k |-> "title", v |-> PyStr(ItemTitle(item))],
      [k |-> "link", v |-> PyStr(ItemLink(item))],
      [k |-> "poster", v |-> PyStr(IF item.img # <<>> THEN item.img[1] ELSE <<>>)],
      [k |-> "rating", v |-> PyFloat(ItemRating(item))],
      [k |-> "total_ratings", v |-> PyInt(ItemPeople(item))],
      [k |-> "directors", v |-> PyStr(ItemInfo(item).directors)],
      [k |-> "actors", v |-> PyStr(ItemInfo(item).actors)],
      [k |-> "release_date", v |-> PyStr(ItemInfo(item).release_date)],
      [k |-> "summary", v |-> PyStr(<<>>)]>>

\* whether _process_movie_with_detail requests the detail page of a record
FetchesDetail(movie, fetch_detail) == fetch_detail /\ On(movie, "link")

\* _process_movie_with_detail up to the save: merge the detail, normalize
Processed(movie, fetch_detail, detail_info) ==
    normalize_movie_data(IF FetchesDetail(movie, fetch_detail)
                         THEN _merge_detail_info(movie, detail_info)
                         ELSE movie)

\* whether parse_movie_item requests a detail page for the item
DetailInExtractor(item, fetch_detail) ==
    ~item.broken /\ FetchesDetail(ItemMovie(item), fetch_detail)

\* parse_movie_item: <<>> for None, <<movie>> for a record
parse_movie_item(item, fetch_detail, detail_info) ==
    IF item.broken THEN <<>>
    ELSE <<Processed(ItemMovie(item), fetch_detail, detail_info)>>

\* the dedup key: the trimmed link, or the trimmed title when the link is empty
MovieKey(movie) ==
    IF On(movie, "link") THEN Strip(V(movie, "link").s)
    ELSE Strip(Get(movie, "title", PyStr(<<>>)).s)

-----------------------------------------------------------------------------
(* Record Extractor, other page formats: parse_generic_movie_item.  It     *)
(* reads, beside the fields above:                                         *)
(*   a       the first anchor: <<>> or <<[href, text, title]>>             *)
(*   alt     the alt of the first img, <<>> when it has none               *)
(*   span_a  the anchor of span.title or span.pl2: <<>> or <<[href, text]>>*)
(* where an href that the anchor lacks is <<>> and one it has is <<text>>. *)

PEOPLE == "people-marker"

GenericPeople(item) ==
    IF \E i \in 1..Len(item.star) : Contains(item.star[i], PEOPLE)
    THEN LET i == CHOOSE j \in 1..Len(item.star) :
                      /\ Contains(item.star[j], PEOPLE)
                      /\ \A k \in 1..(j - 1) : ~Contains(item.star[k], PEOPLE)
         IN  PeopleCount(Strip(item.star[i]))
    ELSE 0

parse_generic_movie_item(item) ==
    LET m1 == IF item.a # <<>> /\ item.a[1].href # <<>> /\ item.a[1].href[1] # <<>>
              THEN LET linked == <<[k |-> "link", v |-> PyStr(item.a[1].href[1])]>>
                   IN  IF Strip(item.a[1].text) # <<>>
                       THEN Put(linked, "title", PyStr(Strip(item.a[1].text)))
                       ELSE IF item.a[1].title # <<>>
                       THEN Put(linked, "title", PyStr(item.a[1].title))
                       ELSE linked
              ELSE <<>>
        m2 == IF item.alt # <<>> /\ ~Has(m1, "title")
              THEN Put(m1, "title", PyStr(item.alt)) ELSE m1
        m3 == IF item.span_a # <<>>
              THEN Put(Put(m2, "title", PyStr(Strip(item.span_a[1].text))), "link",
                       IF item.span_a[1].href # <<>> THEN PyStr(item.span_a[1].href[1])
                       ELSE Get(m2, "link", PyStr(<<>>)))
              ELSE m2
        m4 == Put(Put(m3, "rating", PyFloat(ItemRating(item))), "total_ratings",
                  PyInt(GenericPeople(item)))
    IN  IF On(m4, "title") THEN <<m4>> ELSE <<>>

-----------------------------------------------------------------------------
(* Record Extractor, JSON items: the loop bodies of _crawl_movies_from_api *)
(* and _crawl_movies_by_region up to the dedup check.  An item is          *)
(*   id, uri     values ('' when the key is absent)                        *)
(*   title       <<>> or <<value>>                                         *)
(*   rating      [kind, value, count], kind "none", "dict" or "number"     *)
(*   pic         [kind, large, normal, url], kind "none", "dict" or "text" *)

UNKNOWN == "unknown-title"

\* text.split(sep)[-1]
AfterLast(s, sep) == Split(s, sep)[Len(Split(s, sep))]

RECURSIVE RStripSlash(_)
RStripSlash(s) ==
    IF s # <<>> /\ s[Len(s)] = "/" THEN RStripSlash(Sub(s, 1, Len(s) - 1)) ELSE s

\* the identifier of an item: id, or the last segment of uri
ItemId(kind, item) ==
    IF Truthy(item.uri) /\ Contains(item.uri.s, MOVIE)
    THEN PyStr(AfterLast(item.uri.s, MOVIE))
    ELSE IF kind = "region" /\ Truthy(item.uri) /\ Contains(item.uri.s, SUBJ)
    THEN PyStr(RStripSlash(AfterLast(item.uri.s, SUBJ)))
    ELSE item.id

\* int(v) and float(v): whether the call returns, and what
IntOk(v) == v.t \in {"int", "float"} \/ (v.t = "str" /\ IntParses(v.s))
IntVal(v) == IF v.t = "str" THEN IntOf(v.s) ELSE IF v.t = "float" THEN v.n \div 10 ELSE v.n
FloatOk(v) == v.t \in {"int", "float"} \/ (v.t = "str" /\ FloatParses(v.s))
FloatVal(v) == IF v.t = "str" THEN FloatOf(v.s) ELSE IF v.t = "int" THEN 10 * v.n ELSE v.n

\* an identifier that is only tested for being empty: C21 fails with it
EmptyIdOnly(movie_id) == ~Truthy(movie_id)

\* if movie_id: ... int(movie_id) ... except (ValueError, TypeError): continue
NoUsableId(movie_id) == ~Truthy(movie_id) \/ ~IntOk(movie_id)

\* whether reading the rating of an item raises
RatingRaises(kind, item) ==
    \/ item.rating.kind = "dict" /\ ~(FloatOk(item.rating.value) /\ IntOk(item.rating.count))
    \/ item.rating.kind = "number" /\ kind = "api"
    \/ item.rating.kind = "number" /\ ~FloatOk(item.rating.value)

ItemPoster(kind, item) ==
    IF item.pic.kind = "dict"
    THEN IF item.pic.large # <<>> THEN item.pic.large
         ELSE IF item.pic.normal # <<>> \/ kind = "api" THEN item.pic.normal
         ELSE item.pic.url
    ELSE IF item.pic.kind = "text" THEN item.pic.large
    ELSE <<>>

\* [res, movie]: "skip" for an item without a usable identifier, "raise" for one
\* whose fields make the body raise, "movie" with the record otherwise
ApiMovie(kind, item) ==
    LET movie_id == ItemId(kind, item)
    IN  IF NoUsableId(movie_id) THEN [res |-> "skip", movie |-> <<>>]
        ELSE IF RatingRaises(kind, item) THEN [res |-> "raise", movie |-> <<>>]
        ELSE [res |-> "movie",
              movie |->
                <<[k |-> "link", v |-> PyStr(<<BASE, SUBJ>> \o ToText(movie_id) \o <<"/">>)],
                  [k |-> "movie_id", v |-> PyInt(IntVal(movie_id))],
                  [k |-> "title", v |-> IF item.title # <<>> THEN item.title[1]
                                        ELSE PyStr(<<UNKNOWN>>)],
                  [k |-> "rating", v |-> PyFloat(IF item.rating.kind = "none" THEN 0
                                                 ELSE FloatVal(item.rating.value))],
                  [k |-> "total_ratings", v |-> PyInt(IF item.rating.kind = "dict"
                                                      THEN IntVal(item.rating.count)
                                                      ELSE 0)],
                  [k |-> "poster", v |-> PyStr(ItemPoster(kind, item))]>>]

-----------------------------------------------------------------------------
(* The inputs of the model: what the site serves.                          *)

MaxPages == 2   \* max_pages of a paginated driver
MaxItems == 2   \* a page holds 0..MaxItems items
MaxRuns == 2    \* driver invocations in one session
MaxFaults == 1  \* calls of save_movie_line that raise in one session

\* the file names a session gives its drivers: the line-delimited and the
\* tabular one, or all three
TargetSets == {{"jsonl", "csv"}, AllTargets}

\* the link of the one movie the site lists with a link
K1 == <<BASE, SUBJ, "1", "/">>

NoMarkup ==
    [nbg |-> <<>>, pic |-> FALSE, pic_a |-> <<>>, hd |-> FALSE, hd_a |-> <<>>,
     hd_title |-> <<>>, img |-> <<>>, rating_num |-> <<>>, star |-> <<>>,
     info |-> <<>>, broken |-> FALSE, a |-> <<>>, alt |-> <<>>, span_a |-> <<>>]

\* a complete Top-250 item
HtmlFull ==
    [NoMarkup EXCEPT !.nbg = <<K1>>, !.pic = TRUE, !.pic_a = <<K1>>, !.hd = TRUE,
                     !.hd_a = <<K1>>, !.hd_title = <<<<"A">>>>, !.img = <<<<"p">>>>,
                     !.rating_num = <<<<"9", ".", "7">>>>,
                     !.star = <<<<"3", ",", "2", PEOPLE>>>>,
                     !.info = <<<<DIRECTOR, ":", "x", "/", "1", "9", "9", "4">>>>,
                     !.a = <<[href |-> <<K1>>, text |-> <<>>, title |-> <<>>]>>,
                     !.alt = <<"A">>]

\* the same movie, its href followed by a blank
HtmlPadded == [HtmlFull EXCEPT !.nbg = <<K1 \o <<SP>>>>]

\* a heading without any link
HtmlTitleOnly == [NoMarkup EXCEPT !.hd = TRUE, !.hd_title = <<<<"B">>>>]

\* markup on which parse_movie_item raises; the generic extractor reads its anchor
HtmlBroken ==
    [NoMarkup EXCEPT !.broken = TRUE,
                     !.a = <<[href |-> <<K1>>, text |-> <<"C">>, title |-> <<>>]>>]

\* a cover link, and no heading
HtmlLinkOnly == [NoMarkup EXCEPT !.nbg = <<K1>>]

HtmlItems == {HtmlFull, HtmlPadded, HtmlTitleOnly, HtmlLinkOnly, HtmlBroken, NoMarkup}

NoRating == [kind |-> "none", value |-> PyNone, count |-> PyNone]
NoPic == [kind |-> "none", large |-> <<>>, normal |-> <<>>, url |-> <<>>]

ApiFull ==
    [id |-> PyStr(<<"1">>), uri |-> PyStr(<<>>), title |-> <<PyStr(<<"A">>)>>,
     rating |-> [kind |-> "dict", value |-> PyFloat(97), count |-> PyInt(5)],
     pic |-> [kind |-> "dict", large |-> <<>>, normal |-> <<"p">>, url |-> <<>>]]

\* identified by a uri of the form douban://douban.com/movie/1
ApiByUri ==
    [id |-> PyStr(<<>>), uri |-> PyStr(<<"d", MOVIE, "1">>), title |-> <<>>,
     rating |-> NoRating, pic |-> NoPic]

\* identified by a uri of the form https://movie.douban.com/subject/1/
ApiBySubject == [ApiByUri EXCEPT !.uri = PyStr(K1)]

ApiNoId == [ApiByUri EXCEPT !.uri = PyStr(<<>>)]

ApiBadId == [ApiFull EXCEPT !.id = PyStr(<<"x">>)]

\* a rating whose value is null
ApiBadRating ==
    [ApiFull EXCEPT !.id = PyInt(1),
                    !.rating = [kind |-> "dict", value |-> PyNone, count |-> PyInt(5)]]

\* an id that is an integer, and a uri whose last segment is not
ApiBadUri == [ApiFull EXCEPT !.uri = PyStr(<<"d", MOVIE, "x">>)]

ApiItems == {ApiFull, ApiByUri, ApiBySubject, ApiNoId, ApiBadId, ApiBadUri, ApiBadRating}

Detail1 ==
    [fields |-> <<[k |-> "directors", v |-> PyStr(<<"x", ",", "y">>)]>>,
     has_rd |-> TRUE, rd |-> <<[k |-> "average", v |-> PyFloat(91)]>>]

\* parse_movie_detail(link): the detail page of K1 is served, any other is not
DetailPage(link) == IF Strip(link) = K1 THEN Detail1 ELSE NoDetail

CLASSIC == "classic-movies"
HIGH == "high-rating-movies"
REGION == "region-movies"

-----------------------------------------------------------------------------
(* Deduplicating Crawl Drivers: crawl_top250, crawl_classic_movies,        *)
(* _crawl_movies_from_api, _crawl_movies_by_region.  A step is one         *)
(* iteration of a loop.  The items of a page are drawn as the loop reaches *)
(* them; the page in hand is known by its length.                          *)

Idle ==
    [kind |-> "none", pc |-> "idle", page |-> 0, max_pages |-> 0,
     fetch_detail |-> FALSE, save_immediately |-> FALSE, targets |-> {},
     category_name |-> "", todo |-> 0, page_count |-> 0,
     sink_fault |-> FALSE]

\* detail: the step has requested a detail page; no_id: the step has met a JSON
\* item whose identifier is empty or is not an integer
NoLog ==
    [op |-> "none", res |-> "", key |-> <<>>, blank |-> FALSE, detail |-> FALSE,
     no_id |-> FALSE]

Absent == [jsonl |-> [exists |-> FALSE, lines |-> <<>>],
           json |-> [kind |-> "absent", elems |-> <<>>],
           csv |-> [exists |-> FALSE, rows |-> <<>>]]

Disk == [jsonl |-> jsonl, json |-> json, csv |-> csv]

\* fetch_detail, save_immediately and the file names of the session
Options ==
    {[fetch_detail |-> fd, save_immediately |-> FALSE, targets |-> {}] : fd \in BOOLEAN}
    \cup {[fetch_detail |-> TRUE, save_immediately |-> TRUE, targets |-> t] :
             t \in TargetSets}

Init ==
    /\ options \in Options
    /\ existing_movies = {}
    /\ accepted = <<>>
    /\ jsonl = Absent.jsonl
    /\ json = Absent.json
    /\ csv = Absent.csv
    /\ driver = Idle
    /\ movies = <<>>
    /\ runs = 0
    /\ faults = 0
    /\ start = Absent
    /\ calls = <<>>
    /\ log = NoLog

\* the loop goes on with the next page, or ends at the pagination bound
NextPage(d) ==
    IF d.page + 1 < d.max_pages
    THEN [d EXCEPT !.pc = "fetch", !.page = @ + 1, !.todo = 0, !.page_count = 0]
    ELSE [d EXCEPT !.pc = "done", !.todo = 0]

\* break, or return
Stop(d) == [d EXCEPT !.pc = "done", !.todo = 0]

\* the loop over the items of the page goes on; todo counts the items it has
\* not reached yet
NextItem(d) == [d EXCEPT !.todo = @ - 1]

\* a driver is called with the session's options and dedup set; crawl_top250
\* removes the line-delimited and tabular targets it was given when it saves
\* immediately; crawl_classic_movies takes neither option
Start(kind, max_pages) ==
    LET fetch_detail == kind # "classic" /\ options.fetch_detail
        save_immediately == kind # "classic" /\ options.save_immediately
        targets == IF kind = "classic" THEN {} ELSE options.targets
    IN  /\ driver.pc = "idle"
        /\ runs < MaxRuns
        /\ runs' = runs + 1
        /\ driver' = [Idle EXCEPT !.kind = kind, !.pc = "fetch", !.max_pages = max_pages,
                                  !.fetch_detail = fetch_detail,
                                  !.save_immediately = save_immediately,
                                  !.targets = targets,
                                  !.category_name = CASE kind = "api" -> HIGH
                                                      [] kind = "region" -> REGION
                                                      [] kind = "classic" -> CLASSIC
                                                      [] OTHER -> ""]
        /\ movies' = <<>>
        /\ jsonl' = IF kind = "top250" /\ save_immediately /\ "jsonl" \in targets
                    THEN Absent.jsonl ELSE jsonl
        /\ csv' = IF kind = "top250" /\ save_immediately /\ "csv" \in targets
                  THEN Absent.csv ELSE csv
        /\ log' = [NoLog EXCEPT !.op = "start"]
        /\ UNCHANGED <<options, existing_movies, accepted, json, faults, start, calls>>

\* a failed fetch that ends the pagination: C5 fails with it
StopOnFetchFault(d) == Stop(d)

\* the page fetch after a failure: crawl_top250 goes on with the next page, an
\* API driver gives up on its first page and goes on after a later one
AfterFetchFault(d) ==
    CASE d.kind = "top250" -> NextPage(d)
      [] d.kind = "classic" -> Stop(d)
      [] OTHER -> IF d.page = 0 THEN Stop(d) ELSE NextPage(d)

\* an empty page passed over: C3 fails with it
SkipEmptyPage(d) == NextPage(d)

\* a fetched page without items ends the pagination
AfterEmptyPage(d) == Stop(d)

\* get_page / session.get: n is the number of items served, -1 a fetch that failed
Fetch(n) ==
    /\ driver.pc = "fetch"
    /\ driver' = IF n < 0 THEN AfterFetchFault(driver)
                 ELSE IF n = 0 THEN AfterEmptyPage(driver)
                 ELSE [driver EXCEPT !.pc = "item", !.todo = n, !.page_count = 0]
    /\ log' = [NoLog EXCEPT !.op = "fetch",
                            !.res = IF n < 0 THEN "fail" ELSE IF n = 0 THEN "empty"
                                    ELSE "page"]
    /\ UNCHANGED <<options, existing_movies, accepted, jsonl, json, csv, movies, runs, faults,
                   start, calls>>

\* the faults save_movie_line can meet when called with these targets
FaultsOf(saves, targets, disk) ==
    IF ~saves THEN {"none"}
    ELSE (IF faults >= MaxFaults THEN {"none"}
          ELSE {f \in SinkFaults :
                  /\ f # "none" => FaultTarget(f) \in targets
                  /\ f = "json_read" => disk.json.kind # "absent"})
         \cup {f \in Interrupts : FaultTarget(f) \in targets}

\* the process after an interrupt: nothing of it runs any more
Killed == [Idle EXCEPT !.pc = "killed"]

InterruptLog(point) == [NoLog EXCEPT !.op = "interrupt", !.res = point]

\* a page whose item raised outside the extractor is given up by crawl_top250
AfterItemFault(d) == [NextPage(d) EXCEPT !.sink_fault = TRUE]

\* a dedup check that lacks the membership test: C1 fails with it
AcceptsSeen(key, dedup_set) == key # <<>>

\* a dedup check that lacks the test of the key: C2 fails with it
AcceptsEmptyKey(key, dedup_set) == key \notin dedup_set

\* the dedup check of every driver
Accepts(key, dedup_set) == key # <<>> /\ key \notin dedup_set

\* whether the link and the title of a record are both empty once trimmed
Blank(movie) ==
    /\ Get(movie, "link", PyStr(<<>>)).t = "str"
    /\ Strip(Get(movie, "link", PyStr(<<>>)).s) = <<>>
    /\ Get(movie, "title", PyStr(<<>>)).t = "str"
    /\ Strip(Get(movie, "title", PyStr(<<>>)).s) = <<>>

\* the log of an item step; extracted is <<>> or <<movie>>
ItemLog(res, extracted, movie_key) ==
    [NoLog EXCEPT !.op = "item", !.res = res, !.key = movie_key,
                  !.blank = extracted # <<>> /\ Blank(extracted[1])]

\* one iteration of the item loop of crawl_top250
TopItem(item) ==
    /\ driver.pc = "item"
    /\ driver.todo > 0
    /\ driver.kind = "top250"
    /\ \E parsed \in {parse_movie_item(item, driver.fetch_detail,
                                       DetailPage(ItemLink(item)))} :
       LET movie_key == IF parsed = <<>> THEN <<>> ELSE MovieKey(parsed[1])
           accept == parsed # <<>> /\ Accepts(movie_key, existing_movies)
           saves == accept /\ driver.save_immediately
       IN  \E movie \in {IF accept THEN Processed(parsed[1], FALSE, NoDetail) ELSE <<>>} :
           \E fault \in FaultsOf(saves, driver.targets, Disk) :
           /\ existing_movies' = IF accept THEN existing_movies \cup {movie_key}
                                 ELSE existing_movies
           /\ \E disk \in {IF saves
                           THEN save_movie_line(Disk, movie, driver.targets, fault)
                           ELSE Disk} :
                  jsonl' = disk.jsonl /\ json' = disk.json /\ csv' = disk.csv
           /\ faults' = IF fault \in SinkFaults \ {"none"} THEN faults + 1 ELSE faults
           /\ movies' = IF accept /\ fault = "none" THEN Append(movies, movie) ELSE movies
           /\ driver' = IF fault \in Interrupts THEN Killed
                        ELSE IF fault # "none" THEN AfterItemFault(driver)
                        ELSE IF accept
                        THEN NextItem([driver EXCEPT !.page_count = @ + 1])
                        ELSE NextItem(driver)
           /\ log' = IF fault \in Interrupts THEN InterruptLog(fault)
                      ELSE [ItemLog(IF parsed = <<>> THEN "none"
                                    ELSE IF ~accept THEN "skipped"
                                    ELSE IF fault # "none" THEN "raised"
                                    ELSE "accepted",
                                    parsed, movie_key)
                               EXCEPT !.detail = DetailInExtractor(item, driver.fetch_detail)]
    /\ UNCHANGED <<options, accepted, runs, start, calls>>

\* a record returned without its source label: C19 fails with it
Unstamped(movie, category_name) == movie

\* movie['category'] = category_name
Stamped(movie, category_name) == Put(movie, "category", PyStr(<<category_name>>))

\* an exception in the body of the item loop of an API driver skips the item
AfterApiItemFault(d) == NextItem([d EXCEPT !.sink_fault = TRUE])

\* one iteration of the item loop of _crawl_movies_from_api (kind "api") or of
\* _crawl_movies_by_region (kind "region")
ApiItem(item) ==
    /\ driver.pc = "item"
    /\ driver.todo > 0
    /\ driver.kind \in {"api", "region"}
    /\ \E parsed \in {ApiMovie(driver.kind, item)} :
       LET movie_key == IF parsed.res = "movie" THEN MovieKey(parsed.movie) ELSE <<>>
           accept == parsed.res = "movie" /\ Accepts(movie_key, existing_movies)
           saves == accept /\ driver.save_immediately
       IN  \E movie \in {IF accept
                         THEN Processed(parsed.movie, driver.fetch_detail,
                                        DetailPage(V(parsed.movie, "link").s))
                         ELSE <<>>} :
           \E fault \in FaultsOf(saves, driver.targets, Disk) :
           /\ existing_movies' = IF accept THEN existing_movies \cup {movie_key}
                                 ELSE existing_movies
           /\ \E disk \in {IF saves
                           THEN save_movie_line(Disk, movie, driver.targets, fault)
                           ELSE Disk} :
                  jsonl' = disk.jsonl /\ json' = disk.json /\ csv' = disk.csv
           /\ faults' = IF fault \in SinkFaults \ {"none"} THEN faults + 1 ELSE faults
           /\ movies' = IF accept /\ fault = "none"
                        THEN Append(movies, Stamped(movie, driver.category_name))
                        ELSE movies
           /\ driver' = IF fault \in Interrupts THEN Killed
                        ELSE IF fault # "none" THEN AfterApiItemFault(driver)
                        ELSE IF accept
                        THEN NextItem([driver EXCEPT !.page_count = @ + 1])
                        ELSE NextItem(driver)
           /\ log' = IF fault \in Interrupts THEN InterruptLog(fault)
                      ELSE [ItemLog(IF parsed.res = "skip" THEN "none"
                                    ELSE IF parsed.res = "raise" THEN "raised"
                                    ELSE IF ~accept THEN "skipped"
                                    ELSE IF fault # "none" THEN "raised"
                                    ELSE "accepted",
                                    IF parsed.res = "movie" THEN <<parsed.movie>> ELSE <<>>,
                                    movie_key)
                               EXCEPT !.detail = accept /\ FetchesDetail(parsed.movie,
                                                                         driver.fetch_detail),
                                      !.no_id = \/ ~Truthy(ItemId(driver.kind, item))
                                                \/ ~IntOk(ItemId(driver.kind, item))]
    /\ UNCHANGED <<options, accepted, runs, start, calls>>

\* one iteration of the item loop of crawl_classic_movies
ClassicItem(item) ==
    /\ driver.pc = "item"
    /\ driver.todo > 0
    /\ driver.kind = "classic"
    /\ \E first \in {parse_movie_item(item, FALSE, NoDetail)} :
       \E parsed \in {IF first = <<>> THEN parse_generic_movie_item(item) ELSE first} :
       LET movie_key == IF parsed = <<>> THEN <<>> ELSE MovieKey(parsed[1])
           accept == parsed # <<>> /\ Accepts(movie_key, existing_movies)
       IN  /\ existing_movies' = IF accept THEN existing_movies \cup {movie_key}
                                 ELSE existing_movies
           /\ movies' = IF accept
                        THEN Append(movies, Stamped(parsed[1], driver.category_name))
                        ELSE movies
           /\ driver' = IF accept THEN NextItem([driver EXCEPT !.page_count = @ + 1])
                        ELSE NextItem(driver)
           /\ log' = ItemLog(IF parsed = <<>> THEN "none"
                             ELSE IF ~accept THEN "skipped"
                             ELSE "accepted",
                             parsed, movie_key)
    /\ UNCHANGED <<options, accepted, jsonl, json, csv, runs, faults, start, calls>>

\* the code after the loop over the items of a page
AfterPage(d) ==
    CASE d.kind = "top250" -> NextPage(d)
      [] d.kind = "api" -> IF d.page_count = 0 /\ d.page > 0 THEN Stop(d) ELSE NextPage(d)
      [] d.kind = "region" -> IF d.page_count = 0 THEN Stop(d) ELSE NextPage(d)
      [] OTHER -> Stop(d)

EndPage ==
    /\ driver.pc = "item"
    /\ driver.todo = 0
    /\ driver' = AfterPage(driver)
    /\ log' = [NoLog EXCEPT !.op = "endpage"]
    /\ UNCHANGED <<options, existing_movies, accepted, jsonl, json, csv, movies, runs, faults,
                   start, calls>>

\* return movies: the caller extends its list with the result
Return ==
    /\ driver.pc = "done"
    /\ accepted' = accepted \o movies
    /\ movies' = <<>>
    /\ driver' = Idle
    /\ log' = [NoLog EXCEPT !.op = "return"]
    /\ UNCHANGED <<options, existing_movies, jsonl, json, csv, runs, faults, start, calls>>

\* an aggregate array written from the records as they are: C20 fails with it
DumpAsGiven(data) == [kind |-> "array", elems |-> data]

\* save_to_json(data, filename): the aggregate array rewritten with the
\* normalized records of the list
save_to_json(data) ==
    [kind |-> "array", elems |-> [i \in 1..Len(data) |-> normalize_movie_data(data[i])]]

\* main(): the list a driver returns, when it is not empty, is written whole
\* to the aggregate-array target of the source
ReturnToMain ==
    /\ driver.pc = "done"
    /\ driver.kind \in {"top250", "api", "region"}
    /\ options.save_immediately
    /\ movies # <<>>
    /\ accepted' = accepted \o movies
    /\ \E written \in {save_to_json(movies)} : json' = written
    /\ movies' = <<>>
    /\ driver' = Idle
    /\ log' = [NoLog EXCEPT !.op = "return", !.res = "saved"]
    /\ UNCHANGED <<options, existing_movies, jsonl, csv, runs, faults, start, calls>>

\* a KeyboardInterrupt delivered to a running driver outside the writes of the
\* sink: except Exception does not catch it and the process ends
Interrupt ==
    /\ driver.pc \in {"fetch", "item"}
    /\ driver' = Killed
    /\ log' = InterruptLog("none")
    /\ UNCHANGED <<options, existing_movies, accepted, jsonl, json, csv, movies, runs, faults,
                   start, calls>>

StartTop250 == Start("top250", MaxPages)

StartApi == \E kind \in {"api", "region"} : Start(kind, MaxPages)

StartClassic == Start("classic", 1)

FetchPage == \E n \in -1..MaxItems : Fetch(n)

Top250Step == \E item \in HtmlItems : TopItem(item)

ApiStep == \E item \in ApiItems : ApiItem(item)

ClassicStep == \E item \in HtmlItems : ClassicItem(item)

Next ==
    \/ StartTop250
    \/ StartApi
    \/ StartClassic
    \/ FetchPage
    \/ Top250Step
    \/ ApiStep
    \/ ClassicStep
    \/ EndPage
    \/ Return
    \/ ReturnToMain
    \/ Interrupt

Spec == Init /\ [][Next]_vars

-----------------------------------------------------------------------------
(* The sink called on its own: save_movie_line on targets in any state the *)
(* caller may have left them in.                                           *)

MaxCalls == 2   \* calls of save_movie_line

RecA == <<[k |-> "title", v |-> PyStr(<<"A">>)], [k |-> "rating", v |-> PyFloat(97)]>>

RecB == RecA \o <<[k |-> "poster", v |-> PyStr(<<"p">>)]>>

\* a record with a field outside FIELD_ORDER, and a rating to be parsed
RecC ==
    <<[k |-> "extra", v |-> PyStr(<<"e">>)], [k |-> "link", v |-> PyStr(K1)],
      [k |-> "rating", v |-> PyStr(<<"8", ".", "5">>)]>>

SinkMovies == {RecA, RecB, RecC}

\* the file names given to a call
SinkTargets == {{"json"}, {"csv"}, AllTargets}

\* an aggregate-array target: absent, an array, another JSON value, or not JSON
JsonFiles ==
    {[kind |-> "array", elems |-> <<>>],
     [kind |-> "array", elems |-> <<RecB, RecA>>],
     [kind |-> "value", elems |-> <<RecB>>],
     [kind |-> "corrupt", elems |-> <<>>]}

\* a tabular target: absent, empty, or a header and a row
CsvFiles ==
    {[exists |-> TRUE, rows |-> <<>>],
     [exists |-> TRUE, rows |-> <<<<<<"title">>, <<"year">>>>, <<<<"A">>, <<>>>>>>]}

SinkDisks ==
    {Absent, [Absent EXCEPT !.jsonl = [exists |-> TRUE, lines |-> <<RecA>>]]}
    \cup {[Absent EXCEPT !.json = f] : f \in JsonFiles}
    \cup {[Absent EXCEPT !.csv = f] : f \in CsvFiles}

SinkInit ==
    /\ options = [fetch_detail |-> FALSE, save_immediately |-> TRUE, targets |-> AllTargets]
    /\ existing_movies = {}
    /\ accepted = <<>>
    /\ start \in SinkDisks
    /\ jsonl = start.jsonl
    /\ json = start.json
    /\ csv = start.csv
    /\ driver = Idle
    /\ movies = <<>>
    /\ runs = 0
    /\ faults = 0
    /\ calls = <<>>
    /\ log = NoLog

\* save_movie_line(movie, the file names of targets)
SinkCall(movie, targets) ==
    /\ Len(calls) < MaxCalls
    /\ log.op # "interrupt"
    /\ \E fault \in FaultsOf(TRUE, targets, Disk) :
       /\ \E disk \in {save_movie_line(Disk, movie, targets, fault)} :
              jsonl' = disk.jsonl /\ json' = disk.json /\ csv' = disk.csv
       /\ faults' = IF fault \in SinkFaults \ {"none"} THEN faults + 1 ELSE faults
       /\ calls' = Append(calls, [movie |-> movie, targets |-> targets, fault |-> fault])
       /\ log' = IF fault \in Interrupts THEN InterruptLog(fault)
                  ELSE [NoLog EXCEPT !.op = "save", !.res = fault]
    /\ UNCHANGED <<options, existing_movies, accepted, driver, movies, runs, start>>

SinkNext == \E movie \in SinkMovies, targets \in SinkTargets : SinkCall(movie, targets)

SinkSpec == SinkInit /\ [][SinkNext]_vars

-----------------------------------------------------------------------------
(* The merger and the normalizer called on their own, on the records a     *)
(* caller may pass: a raw record is merged with a detail record or not,    *)
(* then normalized, and normalized again as the sink and save_to_json do.  *)
(* movies holds the record in hand, calls the applications made so far.    *)

MaxApply == 3   \* applications made on one record

F(k, v) == <<[k |-> k, v |-> v]>>

T(s) == PyStr(s)

\* movie_id: absent, not a number, a number as text, empty, a float, an int, 0, None
IdCases ==
    {<<>>} \cup {F("movie_id", v) : v \in {T(<<"x">>), T(<<"7">>), T(<<>>), PyFloat(15),
                                           PyInt(7), PyInt(0), PyNone}}

LinkCases == {<<>>, F("link", T(K1)), F("link", T(<<"x">>))}

\* rating: absent, '', None, numeric text, other text, a float, an int
RatingCases ==
    {<<>>} \cup {F("rating", v) : v \in {T(<<>>), PyNone, T(<<"9", ".", "7">>), T(<<"x">>),
                                         T(<<SP>>), PyFloat(97), PyInt(9)}}

\* the people-count text of a list page, and total_ratings as text or as an int
PeopleCases ==
    {<<>>,
     F("people", T(<<"3", ",", "2", WCOMMA, "5", PEOPLE, "9">>)),
     F("people", T(<<PEOPLE>>)),
     F("total_ratings", T(<<"1", ",", "2", PEOPLE>>)),
     F("total_ratings", T(<<PEOPLE>>)),
     F("total_ratings", PyInt(5)),
     F("people", T(<<"4">>)) \o F("total_ratings", PyInt(5)),
     F("people", T(<<>>)) \o F("total_ratings", T(<<"6">>))}

SixNames == <<"a", ",", SP, "b", SP, ",", "c", ",", ",", "d", ",", "e", ",", "f">>

NameCases ==
    {<<>>,
     F("actors", T(SixNames)) \o F("directors", T(<<"x", SP, ",", "y">>))
         \o F("screenwriters", T(<<"s", ",", "t">>)),
     F("actors", T(<<SP, ",", SP>>)) \o F("directors", T(<<",", SP, "y">>))
         \o F("screenwriters", T(<<>>)),
     F("actors", T(<<"a", SP, "b">>)) \o F("directors", T(<<",">>))
         \o F("screenwriters", T(<<SP, "s", SP>>))}

Y1994 == <<"1", "9", "9", "4">>

\* the release_dates texts, each with the date of its first entry
ReleaseTexts ==
    {[text |-> Y1994 \o <<"-", "0", "9", "-", "1", "0", "(", "x", ")", ",", SP>>
                  \o Y1994 \o <<"-", "0", "9", "-", "2", "3">>,
      date |-> Y1994 \o <<"-", "0", "9", "-", "1", "0">>],
     [text |-> Y1994 \o <<"-", "9", "(", "x", ")", ",", "1", "9", "9", "5", "-", "0",
                           "1", "-", "0", "2">>,
      date |-> Y1994 \o <<"-", "9">>],
     [text |-> Y1994 \o <<"(", "x", ")">>, date |-> Y1994],
     [text |-> <<"2">> \o Y1994 \o <<"-", "1", "-", "2", "3", "4">>,
      date |-> Y1994 \o <<"-", "1", "-", "2", "3">>],
     [text |-> <<"x", ",", SP>> \o Y1994, date |-> <<>>]}

ReleaseCases ==
    {a \o b \o c :
        a \in {<<>>} \cup {F("release_dates", T(r.text)) : r \in ReleaseTexts}
                    \cup {F("release_dates", T(<<>>))},
        b \in {<<>>, F("release_date", T(<<"2", "0", "0", "0">>)),
               F("release_date", PyInt(2000))},
        c \in {<<>>, F("release_year", T(<<"1", "9", "9", "9">>))}}

\* fields the normalizer removes, empties or has no place for
OtherCases ==
    {<<>>,
     F("extra", T(<<"e">>)) \o F("rank", PyInt(1)) \o F("category", T(<<HIGH>>))
         \o F("info", T(Y1994)) \o F("poster", T(<<"p">>)),
     F("countries", T(<<"c", DIRECTOR>>)) \o F("languages", T(<<LONG>>))
         \o F("quote", T(<<"q">>)) \o F("summary", T(<<>>)),
     F("countries", T(<<"c">>)) \o F("languages", T(<<ACTOR>>))
         \o F("rating_detail", PyNone) \o F("genres", T(<<"g">>))}

Titled == F("title", T(<<"A">>))

\* the raw records: each varies the fields of one step of the normalizer
RawRecords ==
    {a \o b \o Titled : a \in IdCases, b \in LinkCases}
    \cup {Titled \o a \o b : a \in RatingCases, b \in PeopleCases}
    \cup {Titled \o a \o F("link", T(K1)) : a \in NameCases}
    \cup {a \o Titled : a \in ReleaseCases}
    \cup {a \o Titled \o F("link", T(K1)) : a \in OtherCases}

\* the detail records: none, the one of the site, one with empty fields, one
\* with a rating as text and a count
Details ==
    {NoDetail, Detail1,
     [fields |-> F("poster", T(<<>>)) \o F("actors", T(<<"m", ",", "n">>))
                     \o F("summary", T(<<"s">>)) \o F("title", T(<<"Z">>)),
      has_rd |-> TRUE, rd |-> <<>>],
     [fields |-> F("release_dates", T(Y1994)) \o F("countries", T(<<>>)),
      has_rd |-> TRUE,
      rd |-> F("average", T(<<"8", ".", "5">>)) \o F("total_ratings", PyInt(12))]}

RecordInit ==
    /\ options = [fetch_detail |-> TRUE, save_immediately |-> FALSE, targets |-> {}]
    /\ existing_movies = {}
    /\ accepted = <<>>
    /\ jsonl = Absent.jsonl
    /\ json = Absent.json
    /\ csv = Absent.csv
    /\ driver = Idle
    /\ movies \in {<<r>> : r \in RawRecords}
    /\ runs = 0
    /\ faults = 0
    /\ start = Absent
    /\ calls = <<>>
    /\ log = NoLog

Applied(op, detail_info) == [op |-> op, detail_info |-> detail_info, movie |-> movies[1]]

\* movie = self._merge_detail_info(movie, detail_info), on the raw record
MergeStep(detail_info) ==
    /\ calls = <<>>
    /\ \E merged \in {_merge_detail_info(movies[1], detail_info)} : movies' = <<merged>>
    /\ calls' = Append(calls, Applied("merge", detail_info))
    /\ log' = [NoLog EXCEPT !.op = "merge"]
    /\ UNCHANGED <<options, existing_movies, accepted, jsonl, json, csv, driver, runs, faults,
                   start>>

\* movie = self.normalize_movie_data(movie)
NormalizeStep ==
    /\ Len(calls) < MaxApply
    /\ \E normalized \in {normalize_movie_data(movies[1])} : movies' = <<normalized>>
    /\ calls' = Append(calls, Applied("normalize", NoDetail))
    /\ log' = [NoLog EXCEPT !.op = "normalize"]
    /\ UNCHANGED <<options, existing_movies, accepted, jsonl, json, csv, driver, runs, faults,
                   start>>

RecordNext == NormalizeStep \/ \E detail_info \in Details : MergeStep(detail_info)

RecordSpec == RecordInit /\ [][RecordNext]_vars

-----------------------------------------------------------------------------
(* The list-page extractor called on its own: parse_movie_item on an item   *)
(* with any markup of its three link places.  calls holds the call made,    *)
(* movies what it returned.                                                 *)

\* the href an anchor gives: no anchor, an anchor without href, an absolute
\* link, a relative one
Hrefs == {<<>>, <<<<>>>>, <<K1>>, <<<<SUBJ, "1", "/">>>>}

\* a container is there when it holds an anchor, and may be there without one
LinkItems ==
    {item \in {[NoMarkup EXCEPT !.nbg = nbg, !.pic = pic, !.pic_a = pic_a, !.hd = hd,
                                !.hd_a = hd_a,
                                !.hd_title = IF hd THEN <<<<"A">>>> ELSE <<>>] :
                  nbg \in Hrefs, pic \in BOOLEAN, pic_a \in Hrefs, hd \in BOOLEAN,
                  hd_a \in Hrefs} :
        (item.pic_a # <<>> => item.pic) /\ (item.hd_a # <<>> => item.hd)}

ExtractInit ==
    /\ options \in {o \in Options : ~o.save_immediately}
    /\ existing_movies = {}
    /\ accepted = <<>>
    /\ jsonl = Absent.jsonl
    /\ json = Absent.json
    /\ csv = Absent.csv
    /\ driver = Idle
    /\ movies = <<>>
    /\ runs = 0
    /\ faults = 0
    /\ start = Absent
    /\ calls = <<>>
    /\ log = NoLog

\* movie = self.parse_movie_item(item, fetch_detail=fetch_detail)
ExtractStep(item) ==
    /\ calls = <<>>
    /\ \E parsed \in {parse_movie_item(item, options.fetch_detail,
                                       DetailPage(ItemLink(item)))} : movies' = parsed
    /\ calls' = <<[item |-> item, fetch_detail |-> options.fetch_detail]>>
    /\ log' = [NoLog EXCEPT !.op = "extract",
                            !.detail = DetailInExtractor(item, options.fetch_detail)]
    /\ UNCHANGED <<options, existing_movies, accepted, jsonl, json, csv, driver, runs, faults,
                   start>>

ExtractNext == \E item \in LinkItems : ExtractStep(item)

ExtractSpec == ExtractInit /\ [][ExtractNext]_vars

-----------------------------------------------------------------------------
(* Properties of the drivers *)

\* the dedup key of a row of the tabular target, read under its header
RowKey(header, row) ==
    LET cell(name) == IF \E i \in 1..Len(header) : header[i] = <<name>>
                      THEN row[CHOOSE i \in 1..Len(header) : header[i] = <<name>>]
                      ELSE <<>>
    IN  IF Strip(cell("link")) # <<>> THEN Strip(cell("link")) ELSE Strip(cell("title"))

DistinctKeys(recs) ==
    \A i, j \in 1..Len(recs) : i # j => MovieKey(recs[i]) # MovieKey(recs[j])

DistinctRows(f) ==
    \A i, j \in 2..Len(f.rows) :
        i # j => RowKey(f.rows[1], f.rows[i]) # RowKey(f.rows[1], f.rows[j])

OneRecordPerKey ==
    /\ DistinctKeys(accepted \o movies)
    /\ \A i \in 1..Len(accepted \o movies) :
           MovieKey((accepted \o movies)[i]) \in existing_movies
    /\ DistinctKeys(jsonl.lines)
    /\ DistinctKeys(json.elems)
    /\ DistinctRows(csv)

FilesUnchanged == jsonl' = jsonl /\ json' = json /\ csv' = csv

DuplicateSkipped ==
    log'.op = "item" /\ log'.key \in existing_movies
        => /\ movies' = movies
           /\ existing_movies' = existing_movies
           /\ FilesUnchanged
           /\ log'.res = "skipped"

FirstAccepted ==
    log'.op = "item" /\ log'.key # <<>> /\ log'.key \notin existing_movies
    /\ faults' = faults
        => /\ log'.key \in existing_movies'
           /\ Len(movies') = Len(movies) + 1
           /\ MovieKey(movies'[Len(movies')]) = log'.key
           /\ log'.res = "accepted"

\* C1: in a session whose drivers share the dedup set, no two records accepted
\* into the result lists share a dedup key and no two records of a store do;
\* an item whose key is not yet in the set is accepted when the sink does not
\* raise, and an item whose key is already in the set is skipped: it changes
\* neither the result list nor the set nor any store.
C1_AtMostOneRecordPerKey ==
    []OneRecordPerKey /\ [][FirstAccepted /\ DuplicateSkipped]_vars

\* C1 witness: crawl_top250 skips an item whose key an API driver of the same
\* session has accepted before.
C1_Witness ==
    /\ log.op = "item" /\ log.res = "skipped" /\ log.key # <<>>
    /\ driver.kind = "top250"
    /\ \E i \in 1..Len(accepted) :
           Has(accepted[i], "category") /\ MovieKey(accepted[i]) = log.key

NoBlankRecord ==
    /\ <<>> \notin existing_movies
    /\ \A i \in 1..Len(accepted \o movies) : ~Blank((accepted \o movies)[i])
    /\ \A i \in 1..Len(jsonl.lines) : ~Blank(jsonl.lines[i])
    /\ \A i \in 1..Len(json.elems) : ~Blank(json.elems[i])
    /\ \A i \in 2..Len(csv.rows) : RowKey(csv.rows[1], csv.rows[i]) # <<>>

BlankSkipped ==
    log'.op = "item" /\ log'.blank
        => /\ movies' = movies
           /\ existing_movies' = existing_movies
           /\ FilesUnchanged
           /\ log'.res = "skipped"

\* C2: an extracted item whose link and title are both empty once trimmed is
\* never accepted: the step that meets it leaves the dedup set, the result list
\* and every store as they were, so the empty key is never in the set and no
\* accepted or stored record has both fields empty.
C2_BlankItemNeverAccepted == []NoBlankRecord /\ [][BlankSkipped]_vars

\* C2 witness: such an item is skipped while the dedup set is still empty.
C2_Witness ==
    log.op = "item" /\ log.blank /\ log.res = "skipped" /\ existing_movies = {}

EmptyPageStops ==
    /\ log'.op = "fetch" /\ log'.res = "empty"
           => /\ driver'.pc = "done"
              /\ movies' = movies
              /\ driver.page = 0 => movies' = <<>>
    /\ driver.pc = "done"
           => /\ driver'.pc = "idle"
              /\ accepted' = accepted \o movies

\* C3: a fetched page without items ends the pagination: the driver requests no
\* further page and returns the list it has, which is empty when the page is the
\* first one and holds the records of the earlier pages otherwise.
C3_EmptyPageStops == [][EmptyPageStops]_vars

\* C3 witness: the second page of a driver is empty after a first page that
\* gave a record, and the driver is about to return that record.
C3_Witness ==
    /\ log.op = "fetch" /\ log.res = "empty"
    /\ driver.page = 1 /\ driver.pc = "done" /\ movies # <<>>

Paginated == {"top250", "api", "region"}

NextPageRequested ==
    log'.op = "endpage" /\ driver.kind \in Paginated /\ driver.page + 1 < driver.max_pages
        => driver'.pc = "fetch" /\ driver'.page = driver.page + 1

\* C4: when the loop over the items of a page of a paginated driver ends and
\* the pagination bound is not reached, the driver requests the next page,
\* whatever the dedup set held.
C4_NextPageRequested == [][NextPageRequested]_vars

FetchFaultSkipsPage ==
    log'.op = "fetch" /\ log'.res = "fail"
        => /\ movies' = movies /\ existing_movies' = existing_movies /\ FilesUnchanged
           /\ IF driver.kind \in {"api", "region"} /\ driver.page = 0
              THEN driver'.pc = "done" /\ movies' = <<>>
              ELSE IF driver.kind \in Paginated /\ driver.page + 1 < driver.max_pages
              THEN driver'.pc = "fetch" /\ driver'.page = driver.page + 1
              ELSE driver'.pc = "done"

\* C5 (amended): a failed fetch never leaves the driver, which keeps the
\* records it has; on page 0 of an API driver the driver stops and returns no
\* record; in every other case the failed page is passed over: the driver
\* requests the next page while the pagination bound is not reached, and
\* returns what it has when it is.
C5_FetchFaultSkipsPage == [][FetchFaultSkipsPage /\ EmptyPageStops]_vars

\* C5 witness: the first page of crawl_top250 failed and the second is requested.
C5_Witness ==
    /\ log.op = "fetch" /\ log.res = "fail"
    /\ driver.kind = "top250" /\ driver.pc = "fetch" /\ driver.page = 1

FetchFaultStops ==
    log'.op = "fetch" /\ log'.res = "fail" => driver'.pc = "done"

\* C5 as stated: a failed fetch ends the pagination like a page without items.
C5_FetchFaultStops == [][FetchFaultStops]_vars

ItemFaultSkipsItem ==
    log'.op = "item" /\ log'.res = "raised" /\ driver.todo > 1
        => driver'.pc = "item" /\ driver'.page = driver.page
           /\ driver'.todo = driver.todo - 1

\* C6: an exception raised while an item is processed skips that item only:
\* when items of the page remain, the loop goes on with them.
C6_ItemFaultSkipsItem == [][ItemFaultSkipsItem]_vars

\* the row the tabular target holds for a record under its header
RowOf(header, movie) ==
    [i \in 1..Len(header) |->
        IF Has(movie, CellField(header[i])) THEN CsvCell(V(movie, CellField(header[i])))
        ELSE <<>>]

InStore(target, movie) ==
    CASE target = "jsonl" -> \E i \in 1..Len(jsonl.lines) : jsonl.lines[i] = movie
      [] target = "json" ->
             json.kind = "array" /\ \E i \in 1..Len(json.elems) : json.elems[i] = movie
      [] OTHER -> \E i \in 2..Len(csv.rows) : csv.rows[i] = RowOf(csv.rows[1], movie)

\* C7: in a session that saves immediately and in which the sink has not
\* raised, whenever the driver is about to examine an item, to fetch a page or
\* to return, every record of its result list is, normalized, in each of the
\* stores it was given.
C7_SavedBeforeNextItem ==
    driver.save_immediately /\ faults = 0
        => \A i \in 1..Len(movies) : \A t \in driver.targets :
               InStore(t, normalize_movie_data(movies[i]))

\* C7 witness: an API driver with the three stores has accepted the first item
\* of a page and is about to examine the second.
C7_Witness ==
    /\ driver.kind = "api" /\ driver.pc = "item" /\ driver.todo > 0
    /\ driver.targets = AllTargets /\ faults = 0
    /\ Len(movies) = 1 /\ log.op = "item" /\ log.res = "accepted"

-----------------------------------------------------------------------------
(* Properties of the sink *)

\* the call a step of the sink has made
LastCall == calls'[Len(calls')]

Called == Len(calls') = Len(calls) + 1

\* the call has appended to the tabular target
CsvAppended == Called /\ "csv" \in LastCall.targets /\ LastCall.fault = "none"

\* the call has rewritten the aggregate array
JsonAppended ==
    Called /\ "json" \in LastCall.targets
    /\ FaultTarget(LastCall.fault) \notin {"jsonl", "json"}

HeaderKept ==
    csv.rows # <<>>
        => IF CsvAppended
           THEN LET movie == normalize_movie_data(LastCall.movie)
                    header == csv.rows[1]
                    row == csv'.rows[Len(csv'.rows)]
                IN  /\ Len(csv'.rows) = Len(csv.rows) + 1
                    /\ \A i \in 1..Len(csv.rows) : csv'.rows[i] = csv.rows[i]
                    /\ Len(row) = Len(header)
                    /\ \A i \in 1..Len(header) :
                           row[i] = IF \E j \in 1..Len(movie) : <<movie[j].k>> = header[i]
                                    THEN CsvCell(V(movie, CellField(header[i])))
                                    ELSE <<>>
           ELSE csv' = csv

AThenB ==
    /\ ~start.csv.exists /\ Len(calls) = 2
    /\ calls[1].movie = RecA /\ calls[2].movie = RecB
    /\ \A i \in 1..2 : "csv" \in calls[i].targets /\ calls[i].fault = "none"

\* C9 (amended): appending A, of fields title and rating, then B, of fields
\* title, rating and poster, to a fresh tabular target gives the header
\* movie_id, title, rating, total_ratings, the fields of the normalized A in
\* canonical order, and a row for B of these four cells, without its poster.
C9_HeaderOfNormalizedA ==
    AThenB
        => /\ csv.rows[1] = <<<<"movie_id">>, <<"title">>, <<"rating">>, <<"total_ratings">>>>
           /\ Len(csv.rows) = 3
           /\ csv.rows[3] = <<<<"0">>, <<"A">>, <<"9", ".", "7">>, <<"0">>>>

\* C9 witness: A then B have been appended to a fresh target.
C9_Witness == AThenB /\ Len(csv.rows) = 3 /\ Len(csv.rows[3]) = Len(csv.rows[1])

\* C9 as stated: the header is made of exactly the columns title and rating.
C9_HeaderTitleRating == AThenB => csv.rows[1] = <<<<"title">>, <<"rating">>>>

ArrayExtended ==
    JsonAppended
        => /\ json'.kind = "array"
           /\ json'.elems = Append(IF json.kind \in {"array", "value"} THEN json.elems
                                   ELSE <<>>,
                                   normalize_movie_data(LastCall.movie))
           /\ json.kind = "absent" => Len(json'.elems) = 1
           /\ json.kind = "value" => Len(json'.elems) = 2 /\ json'.elems[1] = json.elems[1]

\* C10: a call of save_movie_line that has rewritten the aggregate array leaves
\* an array made of the elements the target held, in their order, and of the
\* normalized record as last element; an absent target gives an array of one
\* element, and a payload that is not an array is the first of two elements.
C10_ArrayExtended == [][ArrayExtended]_vars

\* C10 witness: a record was appended to a target that held a JSON object.
C10_Witness ==
    /\ start.json.kind = "value" /\ Len(calls) = 1 /\ "json" \in calls[1].targets
    /\ json.kind = "array" /\ Len(json.elems) = 2 /\ json.elems[1] = start.json.elems[1]

-----------------------------------------------------------------------------
(* Properties of the stores under appends and interrupts *)

IsPrefix(s, t) == Len(s) <= Len(t) /\ SubSeq(t, 1, Len(s)) = s

\* the step is the start of crawl_top250, which removes the targets it is to write
RemovesTargets == log'.op = "start" /\ driver'.kind = "top250"

AppendOnly ==
    ~RemovesTargets
        => /\ IsPrefix(jsonl.lines, jsonl'.lines)
           /\ IsPrefix(csv.rows, csv'.rows)
           /\ jsonl.exists => jsonl'.exists
           /\ csv.exists => csv'.exists

\* C11: every step of a crawl that is not the removal of the targets at the
\* start of crawl_top250 leaves the lines of the line-delimited target and the
\* rows of the tabular target in place and at most adds lines and rows after
\* them; this holds for the steps in which the process is interrupted, in or
\* out of a write.
C11_AppendOnly == [][AppendOnly]_vars

\* C11 witness: the process was interrupted in the write of a row while both
\* targets held the record of an earlier item, and they still hold it.
C11_Witness ==
    /\ log.op = "interrupt" /\ log.res = "int_csv"
    /\ Len(jsonl.lines) = 2 /\ Len(csv.rows) = 2
    /\ csv.rows[2] = RowOf(csv.rows[1], jsonl.lines[1])

\* the normalized records of the calls that rewrote the aggregate array
RECURSIVE Rewritten(_)
Rewritten(cs) ==
    IF cs = <<>> THEN <<>>
    ELSE LET c == cs[Len(cs)]
             before == Rewritten(SubSeq(cs, 1, Len(cs) - 1))
         IN  IF "json" \in c.targets /\ FaultTarget(c.fault) \notin {"jsonl", "json"}
             THEN Append(before, normalize_movie_data(c.movie))
             ELSE before

\* the aggregate array was absent or an array when the session found it
StartedValid == start.json.kind \in {"absent", "array"}

\* C12: when no call of the sink has raised, the aggregate-array target, if it
\* exists, is at every instant a JSON array made of the elements the session
\* found in it and of every record appended since; the instant at which an
\* interrupt ends the process in the middle of a rewrite is one of them.
C12_AggregateAlwaysValid ==
    StartedValid /\ faults = 0 /\ json.kind # "absent"
        => json.kind = "array" /\ json.elems = start.json.elems \o Rewritten(calls)

-----------------------------------------------------------------------------
(* Properties of the normalizer and of the merger *)

\* the record the i-th application returned
Result(i) == IF i < Len(calls) THEN calls[i + 1].movie ELSE movies[1]

\* the i-th application is a normalization of a record the normalizer returned
Renormalized(i) == i > 1 /\ calls[i].op = "normalize" /\ calls[i - 1].op = "normalize"

\* C13: normalizing a record that normalize_movie_data returned gives that
\* record back: the same fields, with the same values, in the same order.
C13_Idempotent ==
    \A i \in 1..Len(calls) : Renormalized(i) => Result(i) = calls[i].movie

\* the rating the normalizer is to return for a record
ExpectedRating(movie) ==
    LET rating == V(movie, "rating")
    IN  CASE ~Has(movie, "rating") -> 0
          [] rating.t = "float" -> rating.n
          [] rating.t = "int" -> 10 * rating.n
          [] rating = PyStr(<<"9", ".", "7">>) -> 97
          [] OTHER -> 0

RatingIsFloat ==
    log'.op = "normalize"
        => /\ Has(movies'[1], "rating")
           /\ V(movies'[1], "rating") = PyFloat(ExpectedRating(movies[1]))

\* C14: the rating of the record normalize_movie_data returns is a float: the
\* value of a numeric rating or of a numeric text, and 0.0 for a rating that is
\* absent, empty, None or not a number.
C14_RatingIsFloat == [][RatingIsFloat]_vars

\* movie_id is already a valid integer
ValidId(movie) ==
    LET movie_id == V(movie, "movie_id")
    IN  \/ movie_id.t = "int" /\ movie_id.n # 0
        \/ movie_id.t = "str" /\ IntParses(movie_id.s)

CountsAreIntegers ==
    log'.op = "normalize"
        => LET movie == movies[1]
               out == movies'[1]
               link == Get(movie, "link", PyStr(<<>>))
           IN  /\ V(out, "total_ratings").t = "int"
               /\ V(out, "movie_id").t = "int"
               /\ V(out, "total_ratings").n =
                      IF On(movie, "people") THEN PeopleCount(V(movie, "people").s)
                      ELSE IF ~Has(movie, "total_ratings") THEN 0
                      ELSE IF V(movie, "total_ratings").t = "str"
                      THEN PeopleCount(V(movie, "total_ratings").s)
                      ELSE V(movie, "total_ratings").n
               /\ V(out, "movie_id").n =
                      IF ValidId(movie)
                      THEN IF V(movie, "movie_id").t = "int" THEN V(movie, "movie_id").n
                           ELSE IntOf(V(movie, "movie_id").s)
                      ELSE IF link.t = "str" /\ SubjectId(link.s) # <<>>
                      THEN DigitsToInt(SubjectId(link.s))
                      ELSE 0

\* C15: in the record normalize_movie_data returns, total_ratings and movie_id
\* are integers: total_ratings is the first run of digits of the people text,
\* or of a total_ratings given as text, once the commas are removed, and 0
\* without one; movie_id is the one given when it is a valid integer, else the
\* digits that follow /subject/ in the link, else 0.
C15_CountsAreIntegers == [][CountsAreIntegers]_vars

FiveNames ==
    <<"a", ",", SP, "b", ",", SP, "c", ",", SP, "d", ",", SP, "e">>

\* the field holds at most n names, the first of those it held
Limited(movie, out, k, n) ==
    On(movie, k)
        => /\ V(out, k).t = "str"
           /\ Len(NameList(V(out, k).s)) <= n
           /\ NameList(V(out, k).s) = Take(NameList(V(movie, k).s), n)
           /\ NameList(V(movie, k).s) # <<>>
                  => Len(Split(V(out, k).s, COMMA)) = Len(NameList(V(out, k).s))

NamesLimited ==
    log'.op = "normalize"
        => /\ Limited(movies[1], movies'[1], "actors", 5)
           /\ Limited(movies[1], movies'[1], "directors", 1)
           /\ Limited(movies[1], movies'[1], "screenwriters", 1)
           /\ V(movies[1], "actors") = PyStr(SixNames)
                  => V(movies'[1], "actors") = PyStr(FiveNames)

\* C16: in the record normalize_movie_data returns, actors split on commas
\* gives at most 5 names, the first 5 of the record given, trimmed and in their
\* order, and no empty piece when the record given had a name; directors and
\* screenwriters hold at most one name, the first of the record given.
C16_NamesLimited == [][NamesLimited]_vars

\* C16 witness: a record of six actors and two directors was normalized.
C16_Witness ==
    /\ Len(calls) = 1 /\ calls[1].op = "normalize"
    /\ V(calls[1].movie, "actors") = PyStr(SixNames)
    /\ V(movies[1], "actors") = PyStr(FiveNames)
    /\ V(movies[1], "directors") = PyStr(<<"x">>)

\* release_date as the record given had it, as text
KeptDate(movie, out) ==
    IF Has(movie, "release_date")
    THEN V(out, "release_date") =
             IF V(movie, "release_date").t = "int"
             THEN PyStr(IntToText(V(movie, "release_date").n))
             ELSE V(movie, "release_date")
    ELSE ~Has(out, "release_date")

ReleaseCollapsed ==
    log'.op = "normalize" /\ On(movies[1], "release_dates")
        => LET movie == movies[1]
               out == movies'[1]
               dates == NameList(V(movie, "release_dates").s)
           IN  /\ ~Has(out, "release_dates")
               /\ \A r \in ReleaseTexts :
                      V(movie, "release_dates") = PyStr(r.text)
                          => IF r.date # <<>> THEN V(out, "release_date") = PyStr(r.date)
                             ELSE KeptDate(movie, out)
               /\ dates # <<>>
                      => out = normalize_movie_data(Put(movie, "release_dates",
                                                        PyStr(dates[1])))

\* C17: for a record with a non-empty release_dates, normalize_movie_data
\* removes release_dates and sets release_date from the first entry alone: its
\* YYYY-MM-DD when it has one, else its YYYY-MM, else its YYYY; the record
\* with the later entries removed is normalized to the same record.
C17_ReleaseCollapsed == [][ReleaseCollapsed]_vars

\* C17 witness: two entries with full dates were collapsed to the first date,
\* which replaced the release_date the record had.
C17_Witness ==
    /\ Len(calls) = 1 /\ calls[1].op = "normalize"
    /\ V(calls[1].movie, "release_dates").s
           = Y1994 \o <<"-", "0", "9", "-", "1", "0", "(", "x", ")", ",", SP>>
                   \o Y1994 \o <<"-", "0", "9", "-", "2", "3">>
    /\ V(calls[1].movie, "release_date") = PyInt(2000)
    /\ V(movies[1], "release_date") = PyStr(Y1994 \o <<"-", "0", "9", "-", "1", "0">>)

MergeSet == {MergeFields[i] : i \in 1..Len(MergeFields)}

MergeKeepsBase ==
    log'.op = "merge"
        => LET base == movies[1]
               detail == LastCall.detail_info.fields
               out == movies'[1]
           IN  /\ \A k \in MergeSet :
                      IF On(detail, k) THEN Has(out, k) /\ V(out, k) = V(detail, k)
                      ELSE Has(out, k) = Has(base, k) /\ V(out, k) = V(base, k)
               /\ \A k \in KeySet(base) \ (MergeSet \cup {"rating", "total_ratings"}) :
                      Has(out, k) /\ V(out, k) = V(base, k)
               /\ KeySet(out) \subseteq
                      KeySet(base) \cup MergeSet \cup {"rating", "total_ratings"}

\* C18: _merge_detail_info gives a field of its list the value of the detail
\* record when that value is truthy and leaves it as the base record had it,
\* present or absent, otherwise; the fields outside the list, rating and
\* total_ratings aside, are those of the base record with their values.
C18_MergeKeepsBase == [][MergeKeepsBase]_vars

\* C18 witness: a detail record with an empty poster, actors and a title was
\* merged into a record with a poster: the poster and the title are kept and
\* the actors taken.
C18_Witness ==
    /\ Len(calls) = 1 /\ calls[1].op = "merge"
    /\ Has(calls[1].detail_info.fields, "poster")
    /\ Has(calls[1].detail_info.fields, "title")
    /\ V(calls[1].movie, "poster") = PyStr(<<"p">>)
    /\ V(movies[1], "poster") = PyStr(<<"p">>)
    /\ V(movies[1], "title") = PyStr(<<"A">>)
    /\ V(movies[1], "actors") = PyStr(<<"m", ",", "n">>)

-----------------------------------------------------------------------------
(* Properties of the source label *)

ApiKinds == {"api", "region"}

CategoryStamped ==
    \A i \in 1..Len(movies) :
        /\ driver.kind \in ApiKinds
               => /\ Has(movies[i], "category")
                  /\ V(movies[i], "category") = PyStr(<<driver.category_name>>)
                  /\ normalize_movie_data(Del(movies[i], "category"))
                         = Del(movies[i], "category")
        /\ driver.kind = "top250" => ~Has(movies[i], "category")

\* C19: every record of the list a category or region API driver builds and
\* returns has the field category with the label of the driver, on a record
\* that is otherwise as normalize_movie_data returns it; no record of the list
\* of crawl_top250 has the field.
C19_CategoryStamped == CategoryStamped

\* C19 witness: a region driver that saved its record is about to return it.
C19_Witness ==
    /\ driver.kind = "region" /\ driver.pc = "done" /\ Len(movies) = 1
    /\ driver.save_immediately /\ jsonl.lines # <<>>
    /\ V(movies[1], "category") = PyStr(<<REGION>>)

\* the header of the tabular target has a column for the field
HasColumn(k) == csv.rows # <<>> /\ \E i \in 1..Len(csv.rows[1]) : csv.rows[1][i] = <<k>>

NoCategoryPersisted ==
    /\ \A i \in 1..Len(jsonl.lines) : ~Has(jsonl.lines[i], "category")
    /\ \A i \in 1..Len(json.elems) : ~Has(json.elems[i], "category")
    /\ ~HasColumn("category")

\* C20 (amended): no persisted copy of a record has the field category: not
\* the line of the line-delimited target, not the row of the tabular target,
\* whose header has no such column, and not the element of the aggregate
\* array, written by save_movie_line or by the save_to_json of main; the
\* label is on the records of the list the driver returns only.
C20_CategoryNotPersisted == NoCategoryPersisted

\* C20 witness: main has written the list of an API driver, whose record has
\* its label, and the three targets hold the record.
C20_Witness ==
    /\ log.op = "return" /\ log.res = "saved"
    /\ accepted # <<>> /\ V(accepted[1], "category") = PyStr(<<HIGH>>)
    /\ json.kind = "array" /\ Len(json.elems) = Len(accepted)
    /\ MovieKey(json.elems[1]) = MovieKey(accepted[1])
    /\ jsonl.lines # <<>> /\ Len(csv.rows) > 1

\* the records of the session that an API driver labelled
Labelled(movie) ==
    Has(movie, "category") /\ V(movie, "category") \in {PyStr(<<HIGH>>), PyStr(<<REGION>>)}

\* C20 as stated: every persisted copy of a record an API driver labelled has
\* the field category with that label.
C20_CategoryPersisted ==
    \A i \in 1..Len(accepted \o movies) :
        LET movie == (accepted \o movies)[i]
        IN  Labelled(movie)
                => /\ \A j \in 1..Len(jsonl.lines) :
                          MovieKey(jsonl.lines[j]) = MovieKey(movie)
                              => V(jsonl.lines[j], "category") = V(movie, "category")
                   /\ \A j \in 1..Len(json.elems) :
                          MovieKey(json.elems[j]) = MovieKey(movie)
                              => V(json.elems[j], "category") = V(movie, "category")
                   /\ Len(csv.rows) > 1 => HasColumn("category")

-----------------------------------------------------------------------------
(* Properties of the item loops *)

ItemWithoutIdSkipped ==
    log'.op = "item" /\ log'.no_id
        => /\ existing_movies' = existing_movies
           /\ movies' = movies
           /\ FilesUnchanged
           /\ ~log'.detail
           /\ \A i \in 1..Len(movies') : V(movies'[i], "movie_id") # PyInt(0)
           /\ driver' = NextItem(driver)

\* C21: in both API drivers, an item whose identifier (its id, or the last
\* segment of its uri) is empty or is not an integer is skipped entirely: the
\* step that meets it leaves the dedup set, the result list and every store as
\* they were, requests no detail page, produces no record with movie_id 0, and
\* the loop goes on with the following items of the page.
C21_ItemWithoutIdSkipped == [][ItemWithoutIdSkipped]_vars

\* C21 witness: an API driver that fetches details and saves has passed over
\* such an item and has an item of the page left to examine.
C21_Witness ==
    /\ log.op = "item" /\ log.no_id
    /\ driver.kind \in ApiKinds /\ driver.fetch_detail /\ driver.save_immediately
    /\ driver.pc = "item" /\ driver.todo > 0

SinkFaultAborts == faults' = faults + 1 => driver'.pc \notin {"fetch", "item"}

\* C22: a persistence fault raised by save_movie_line during a crawl leaves the
\* driver and aborts the run: after the step in which the sink raised, the
\* driver examines no further item and requests no further page.
C22_SinkFaultAborts == [][SinkFaultAborts]_vars

HasTitle(movie) == On(movie, "title") /\ Strip(V(movie, "title").s) # <<>>

NoTitlelessRecord ==
    /\ \A i \in 1..Len(accepted \o movies) : HasTitle((accepted \o movies)[i])
    /\ \A i \in 1..Len(jsonl.lines) : HasTitle(jsonl.lines[i])
    /\ \A i \in 1..Len(json.elems) : HasTitle(json.elems[i])

\* C23: no record whose title is empty is accepted by a driver: every record
\* of a result list and of a store has a title, also when the item it was
\* extracted from has a link.
C23_NoTitlelessRecord == NoTitlelessRecord

RecordKeptAfterSink ==
    log'.op = "item" /\ log'.res = "accepted" /\ driver.save_immediately
    /\ "jsonl" \in driver.targets
        => movies'[Len(movies')] = jsonl'.lines[Len(jsonl'.lines)]

\* C24: a record is not modified after it has been handed to the sink: the
\* record a driver appends to its list is the record the sink has just
\* persisted, with the same fields and values.
C24_RecordKeptAfterSink == [][RecordKeptAfterSink]_vars

NoDatePlaceholder ==
    /\ \A i \in 1..Len(accepted \o movies) :
           Has((accepted \o movies)[i], "release_date")
               => Truthy(V((accepted \o movies)[i], "release_date"))
    /\ \A i \in 1..Len(jsonl.lines) :
           Has(jsonl.lines[i], "release_date") => Truthy(V(jsonl.lines[i], "release_date"))
    /\ \A i \in 1..Len(json.elems) :
           Has(json.elems[i], "release_date") => Truthy(V(json.elems[i], "release_date"))

\* C27: a record for which no release date can be parsed has no release_date
\* field after normalization: no record of a result list or of a store, built
\* by the list-page extractor or from a JSON item, has an empty release_date.
C27_NoDatePlaceholder == NoDatePlaceholder

DetailAfterDedup ==
    log'.op = "item" /\ log'.detail
        => log'.key \notin existing_movies /\ log'.key \in existing_movies'

\* C25: in every driver the dedup check precedes the detail fetch: a step
\* requests a detail page only for an item whose key it has just inserted into
\* the dedup set, never for an item whose key was already in the set.
C25_DetailAfterDedup == [][DetailAfterDedup]_vars

KeysMatchRecords ==
    log'.op = "item"
        => /\ existing_movies' # existing_movies <=> Len(movies') = Len(movies) + 1
           /\ Len(movies') = Len(movies) + 1
                  => existing_movies' \ existing_movies = {MovieKey(movies'[Len(movies')])}

\* C28: the keys a driver invocation inserts into the dedup set are exactly
\* the keys of the records of its list, also when the sink raised for some
\* items: every step of an item loop that inserts a key appends the record of
\* that key, and a step that appends no record inserts no key.
C28_KeysMatchRecords == [][KeysMatchRecords]_vars

\* a row of field names: those of FIELD_ORDER and the other columns of the model
IsHeader(row) ==
    \A i \in 1..Len(row) :
        Len(row[i]) = 1 /\ (InFieldOrder(row[i][1]) \/ row[i][1] \in {"extra", "year"})

HeaderFirst == csv.rows # <<>> => IsHeader(csv.rows[1])

\* C29: after any sequence of appends of save_movie_line, a tabular target
\* that holds a row begins with a header row, whether the target was absent,
\* empty or had a header before the first append.
C29_HeaderFirst == HeaderFirst

\* the three stores hold the same sequence of records
SameRecords ==
    /\ json.elems = jsonl.lines
    /\ Len(csv.rows) = IF jsonl.lines = <<>> THEN 0 ELSE Len(jsonl.lines) + 1
    /\ \A i \in 1..Len(jsonl.lines) : csv.rows[i + 1] = RowOf(csv.rows[1], jsonl.lines[i])

StoresAgree ==
    driver.pc = "done" /\ driver.save_immediately /\ driver.targets = AllTargets
    /\ faults = 0
        => SameRecords

\* C30: when a driver has run with immediate saving to the three stores and
\* the sink has not raised, at the end of the invocation the line-delimited,
\* the tabular and the aggregate-array store hold the same sequence of
\* records, whatever they held before the invocation.
C30_StoresAgree == StoresAgree

-----------------------------------------------------------------------------
(* Properties of the list-page extractor *)

\* a link place that can yield a link: its anchor is there with a non-empty href
Yields(place) == place # <<>> /\ place[1] # <<>>

LinkResolved ==
    calls # <<>>
    /\ (\/ Yields(calls[1].item.nbg)
        \/ calls[1].item.pic /\ Yields(calls[1].item.pic_a)
        \/ calls[1].item.hd /\ Yields(calls[1].item.hd_a))
        => movies # <<>> /\ On(movies[1], "link")

\* C26: parse_movie_item tries the cover-link anchor, the anchor of the
\* picture container and the anchor of the heading container in this order
\* and stops at the first that yields a non-empty link: whenever one of the
\* three can yield a link, the link of the record is not empty.
C26_LinkResolved == LinkResolved

====
